---- MODULE Spec2Model ----
(***************************************************************************)
(* Model of the batch-classification pipeline of                           *)
(* literature_analysis/neural_recording_scale/classify_openalex_glm.py:    *)
(* main() (credential check, loading and slicing, resume scan, batch       *)
(* building, cap check, dispatch to a thread pool), wait_for_slot (the     *)
(* sliding-window rate limiter), call_openrouter, parse_model_json and     *)
(* process_batch (retry loop and the locked write of one record).          *)
(*                                                                         *)
(* Time is counted in ticks of 0.2 s, the shortest sleep of the program,   *)
(* so that every duration of the code is a whole number of ticks.          *)
(***************************************************************************)
EXTENDS Integers, Sequences, FiniteSets, TLC

\* ------------------------------------------------------------------ bounds
MaxId == 2           \* paper ids are 1..MaxId
MaxLines == 2        \* input lines of a full run
MaxWorkers == 2      \* largest --concurrency
MaxCpm == 2          \* largest --calls-per-minute
MaxCap == 2          \* largest --daily-call-cap
MaxRetries == 2      \* largest --max-retries
MaxTime == 330       \* the clock stops advancing here (ticks)
MaxLoad == 4         \* largest lines * concurrency * max_retries of a full run
MaxPreLines == 4     \* input lines of a pre-flight run
MaxPreStart == 2     \* largest --start of a pre-flight run
MaxPreMax == 3       \* largest --max of a pre-flight run
MaxPreBatch == 3     \* largest --batch-size of a pre-flight run
MaxPriorLines == 2   \* lines of an existing output file
MaxPos == 2          \* largest position of an inverted index
MaxWords == 2        \* entries of an inverted index
MaxTextLen == 5      \* characters of a response text
MaxPages == 3        \* pages the search service holds
MaxPerPage == 2      \* results of a page
MaxResults == 3      \* largest max_results
MaxRateLimited == 2  \* 429 answers of one fetch

\* ------------------------------------------------------- program constants
TicksPerSecond == 5                       \* time.sleep(0.2) is one tick
WINDOW == 60 * TicksPerSecond             \* now - call_timestamps[0] > 60
PollSleep == 1                            \* time.sleep(0.2)
RateLimitSleep == 5 * TicksPerSecond      \* time.sleep(5) after a 429
Backoff(attempt) == (1 + attempt) * TicksPerSecond  \* time.sleep(1 + attempt)

\* ------------------------------------------------------------------ values
None == << >>
Some(x) == << x >>

Min(a, b) == IF a < b THEN a ELSE b

Ids == 1..MaxId

\* An inverted index is the sequence of its (word, positions) entries, in
\* the dictionary's iteration order; a missing index (None) and {} are << >>.
\* A word is a text, positions a list of numbers.
Entry(word, positions) == [word |-> word, positions |-> positions]
DefaultIndex == <<Entry(<<"a">>, <<0>>)>>

\* One input line: a JSON object carrying an id and an inverted index, or
\* text json.loads rejects.
LineWith(id, inv) == [valid |-> TRUE, id |-> id, inv |-> inv]
Line(id) == LineWith(id, DefaultIndex)
BadLine == [valid |-> FALSE, id |-> 0, inv |-> << >>]

\* Texts are sequences of one-character strings.
ArrayText == <<"[", "1", "]">>
ProseArrayText == <<"x", " ", "[", "1", "]">>
GarbageText == <<"x">>
EmptyText == << >>

\* The tokens of the output file: a serialised record, a newline, or bytes
\* that are not JSON.
RecTok(r) == [t |-> "rec", rec |-> r]
NL == [t |-> "nl"]
Garbage == [t |-> "garbage"]

VARIABLES
    args,             \* the parsed command line and the environment's API key
    inputLines,       \* the lines of the input file
    outFile,          \* the output file: [exists, data (tokens)]
    phase,            \* where main() is
    lines,            \* main's `lines` after slicing
    processed_ids,    \* main's `processed_ids`
    batches,          \* main's `batches`: <<start index, items>> in order
    call_timestamps,  \* the limiter's deque
    clock,            \* time.time(), in ticks
    pending,          \* the executor's work queue
    wk,               \* per worker thread: its position in process_batch and its locals
    write_lock,       \* holder of write_lock, 0 when free
    futures,          \* per batch start index: "pending", "running", "finished", "collected"
    total_inputs,     \* main's `total_inputs`
    openLen,          \* history: length of the output file when it was opened
    admitted,         \* history: the timestamps of all admissions, in order
    requests,         \* history: the times of all outbound POSTs, in order
    hist,             \* history: per batch start index, the outcome of each attempt
    fetch,            \* fetch_openalex: the server's pages, the generator's locals, its history
    run               \* history: 1 in a run of main(), 2 in a re-run over the log it left

\* The variables of the classification run.
mainVars == <<run, args, inputLines, outFile, phase, lines, processed_ids, batches,
              call_timestamps, clock, pending, wk, write_lock, futures,
              total_inputs, openLen, admitted, requests, hist>>

vars == <<run, fetch, args, inputLines, outFile, phase, lines, processed_ids, batches,
          call_timestamps, clock, pending, wk, write_lock, futures,
          total_inputs, openLen, admitted, requests, hist>>

\* ------------------------------------------------------------ pure helpers

\* lines[start:] then lines[:max]; both guarded by the truth value of the flag.
SliceLines(ls, start, max) ==
    LET l1 == IF start # 0 THEN SubSeq(ls, start + 1, Len(ls)) ELSE ls
    IN  IF max # None /\ max[1] # 0
        THEN SubSeq(l1, 1, Min(max[1], Len(l1)))
        ELSE l1

\* The lines of a file, as `for line in fp` yields them: split after each
\* newline, a last line without newline included.
RECURSIVE SplitLines(_, _)
SplitLines(toks, cur) ==
    IF toks = << >> THEN (IF cur = << >> THEN << >> ELSE << cur >>)
    ELSE IF Head(toks) = NL
         THEN << Append(cur, NL) >> \o SplitLines(Tail(toks), << >>)
         ELSE SplitLines(Tail(toks), Append(cur, Head(toks)))

\* json.loads(line) succeeds: exactly one serialised record, then optional newline.
Parseable(line) ==
    /\ Len(line) \in {1, 2}
    /\ line[1].t = "rec"
    /\ Len(line) = 2 => line[2] = NL

\* Mutant of ScanIds: the ids of a record without a parsed result are left out.
RECURSIVE ScanIdsParsedOnly(_)
ScanIdsParsedOnly(ls) ==
    IF ls = << >> THEN {}
    ELSE (IF Parseable(Head(ls)) /\ Head(ls)[1].rec.model_parsed # << >>
          THEN {Head(ls)[1].rec.input_ids[k] : k \in DOMAIN Head(ls)[1].rec.input_ids}
          ELSE {}) \cup ScanIdsParsedOnly(Tail(ls))

\* The loop of lines 171-178 over the lines of the existing output.
RECURSIVE ScanIds(_)
ScanIds(ls) ==
    IF ls = << >> THEN {}
    ELSE (IF Parseable(Head(ls))
          THEN {Head(ls)[1].rec.input_ids[k] : k \in DOMAIN Head(ls)[1].rec.input_ids}
          ELSE {}) \cup ScanIds(Tail(ls))

\* ---------------------------------------------------- reconstruct_abstract

MaxOf(S) == CHOOSE x \in S : \A y \in S : y <= x

\* pos for positions in inv.values() for pos in positions
AllPositions(inv) ==
    UNION {{inv[k].positions[j] : j \in DOMAIN inv[k].positions} : k \in DOMAIN inv}

\* Line 76 does not raise: max() has something to take the maximum of.
CanReconstruct(inv) == inv = << >> \/ AllPositions(inv) # {}

\* for pos in positions: words[pos] = word  (words is indexed from 0)
RECURSIVE PlaceWord(_, _, _)
PlaceWord(words, word, positions) ==
    IF positions = << >> THEN words
    ELSE PlaceWord([words EXCEPT ![Head(positions) + 1] = word], word, Tail(positions))

\* for word, positions in inv.items(): ...
RECURSIVE PlaceAll(_, _)
PlaceAll(words, inv) ==
    IF inv = << >> THEN words
    ELSE PlaceAll(PlaceWord(words, Head(inv).word, Head(inv).positions), Tail(inv))

\* " ".join(words)
RECURSIVE Join(_)
Join(words) ==
    IF words = << >> THEN << >>
    ELSE IF Len(words) = 1 THEN words[1]
    ELSE words[1] \o <<" ">> \o Join(Tail(words))

\* Mutant of reconstruct_abstract: the positions no word covers are left out.
ReconstructCompact(inv) ==
    LET NonEmpty(w) == w # << >>
    IN  IF inv = << >> THEN << >>
        ELSE Join(SelectSeq(
                 PlaceAll([p \in 1..(MaxOf(AllPositions(inv)) + 1) |-> << >>], inv),
                 NonEmpty))

\* Lines 72-81
reconstruct_abstract(inv) ==
    IF inv = << >> THEN << >>
    ELSE LET max_pos == MaxOf(AllPositions(inv))
             words == [p \in 1..(max_pos + 1) |-> << >>]
         IN  Join(PlaceAll(words, inv))

\* Lines 186-200: the paper a line comes to in its batch.
Item(line) == [id |-> line.id, abstract |-> reconstruct_abstract(line.inv)]

\* Mutant of BuildFrom: the start index leaves out args.start.
RECURSIVE BuildFromNoOffset(_, _, _, _)
BuildFromNoOffset(ls, bsize, start, i) ==
    IF i >= Len(ls) THEN << >>
    ELSE << [start_index |-> i,
             items |-> [k \in 1..(Min(i + bsize, Len(ls)) - i) |-> Item(ls[i + k])]] >>
         \o BuildFromNoOffset(ls, bsize, start, i + bsize)

\* for i in range(0, len(lines), batch_size): lines[i : i + batch_size]
RECURSIVE BuildFrom(_, _, _, _)
BuildFrom(ls, bsize, start, i) ==
    IF i >= Len(ls) THEN << >>
    ELSE << [start_index |-> i + start,
             items |-> [k \in 1..(Min(i + bsize, Len(ls)) - i) |-> Item(ls[i + k])]] >>
         \o BuildFrom(ls, bsize, start, i + bsize)

\* Mutant of AllProcessed: one processed id is enough.
AnyProcessed(b, ids) == \E k \in DOMAIN b.items : b.items[k].id \in ids

\* all(b["id"] in processed_ids for b in batch)
AllProcessed(b, ids) == \A k \in DOMAIN b.items : b.items[k].id \in ids

\* Mutant of SkipProcessed: every batch is kept.
SkipNothing(bs, ids) == bs

\* Lines 204-209: drop the batches whose every id was seen, if any id was seen.
SkipProcessed(bs, ids) ==
    LET Keep(b) == ~ AllProcessed(b, ids)
    IN  IF ids # {} THEN SelectSeq(bs, Keep) ELSE bs

BatchIds(b) == [k \in DOMAIN b.items |-> b.items[k].id]

\* ------------------------------------------------------- parse_model_json

\* text.strip(), for the one whitespace character of the alphabet.
RECURSIVE Strip(_)
Strip(t) ==
    IF t = << >> THEN t
    ELSE IF Head(t) = " " THEN Strip(Tail(t))
    ELSE IF t[Len(t)] = " " THEN Strip(SubSeq(t, 1, Len(t) - 1))
    ELSE t

NoSpaces(t) == LET NotSpace(c) == c # " " IN SelectSeq(t, NotSpace)

\* json.loads accepts the text: a number (digits, nothing between them) or
\* a bracketed comma-separated list of values, with whitespace allowed around
\* every value and inside empty brackets.
RECURSIVE IsJsonValue(_), IsJsonElems(_)
IsJsonArray(s) ==
    /\ Len(s) >= 2
    /\ s[1] = "[" /\ s[Len(s)] = "]"
    /\ \/ Strip(SubSeq(s, 2, Len(s) - 1)) = << >>
       \/ IsJsonElems(SubSeq(s, 2, Len(s) - 1))
IsJsonValue(s) ==
    LET t == Strip(s)
    IN  \/ t # << >> /\ \A k \in DOMAIN t : t[k] = "1"
        \/ IsJsonArray(t)
IsJsonElems(s) ==
    \/ IsJsonValue(s)
    \/ \E k \in 2..(Len(s) - 1) :
          /\ s[k] = ","
          /\ IsJsonValue(SubSeq(s, 1, k - 1))
          /\ IsJsonElems(SubSeq(s, k + 1, Len(s)))

\* text.find("[") and text.rfind("]"): 0 stands for Python's -1.
Find(t, c) ==
    IF \E k \in DOMAIN t : t[k] = c
    THEN CHOOSE k \in DOMAIN t : t[k] = c /\ \A j \in 1..(k - 1) : t[j] # c
    ELSE 0
RFind(t, c) ==
    IF \E k \in DOMAIN t : t[k] = c
    THEN CHOOSE k \in DOMAIN t : t[k] = c /\ \A j \in (k + 1)..Len(t) : t[j] # c
    ELSE 0

\* Mutant of parse_model_json: no second try between the brackets.
ParseDirectOnly(text0) ==
    IF IsJsonArray(Strip(text0)) THEN Some(NoSpaces(Strip(text0)))
    ELSE None

\* The parsed list (as its text without whitespace), or None.
parse_model_json(text0) ==
    LET text == Strip(text0)
        start == Find(text, "[")
        end == RFind(text, "]")
        sub == SubSeq(text, start, end)
    IN  IF IsJsonArray(text) THEN Some(NoSpaces(text))
        ELSE IF start # 0 /\ end # 0 /\ end > start /\ IsJsonArray(sub)
             THEN Some(NoSpaces(sub))
             ELSE None

\* ---------------------------------------------------------------- main()

Workers == 1..args.concurrency

IdleWorker == [pc |-> "idle", idx |-> 0, items |-> << >>, attempt |-> 0,
               response_text |-> None, parsed |-> None, error_msg |-> None,
               wakeAt |-> 0]

NoFile == [exists |-> FALSE, data |-> << >>]
File(toks) == [exists |-> TRUE, data |-> toks]

\* Mutant of CheckCredential: the key is not looked at before the input is read.
CheckCredentialSkipped ==
    /\ phase = "START"
    /\ phase' = "LOADING"
    /\ UNCHANGED <<run, fetch, args, inputLines, outFile, lines, processed_ids, batches,
                   call_timestamps, clock, pending, wk, write_lock, futures,
                   total_inputs, openLen, admitted, requests, hist>>

\* Lines 152-154: the API key is required.
CheckCredential ==
    /\ phase = "START"
    /\ phase' = IF args.api_key THEN "LOADING" ELSE "ABORT_CRED"
    /\ UNCHANGED <<run, fetch, args, inputLines, outFile, lines, processed_ids, batches,
                   call_timestamps, clock, pending, wk, write_lock, futures,
                   total_inputs, openLen, admitted, requests, hist>>

\* Lines 158-164: read the input and slice it.
Load ==
    /\ phase = "LOADING"
    /\ lines' = SliceLines(inputLines, args.start, args.max)
    /\ phase' = "RESUME_SCAN"
    /\ UNCHANGED <<run, fetch, args, inputLines, outFile, processed_ids, batches,
                   call_timestamps, clock, pending, wk, write_lock, futures,
                   total_inputs, openLen, admitted, requests, hist>>

\* Lines 166-178: collect the ids of the existing output when resuming.
ResumeScan ==
    /\ phase = "RESUME_SCAN"
    /\ processed_ids' = IF args.resume /\ outFile.exists
                        THEN ScanIds(SplitLines(outFile.data, << >>))
                        ELSE {}
    /\ phase' = "BUILDING_BATCHES"
    /\ UNCHANGED <<run, fetch, args, inputLines, outFile, lines, batches,
                   call_timestamps, clock, pending, wk, write_lock, futures,
                   total_inputs, openLen, admitted, requests, hist>>

\* Lines 180-209: build the batches (json.loads of a bad line and max() of no
\* position are not caught) and drop the processed ones.
BuildBatches ==
    /\ phase = "BUILDING_BATCHES"
    /\ IF \E k \in DOMAIN lines : ~ lines[k].valid \/ ~ CanReconstruct(lines[k].inv)
       THEN /\ phase' = "CRASHED"
            /\ UNCHANGED batches
       ELSE /\ batches' = SkipProcessed(
                              BuildFrom(lines, args.batch_size, args.start, 0),
                              processed_ids)
            /\ phase' = "CAP_CHECK"
    /\ UNCHANGED <<run, fetch, args, inputLines, outFile, lines, processed_ids,
                   call_timestamps, clock, pending, wk, write_lock, futures,
                   total_inputs, openLen, admitted, requests, hist>>

\* Mutant of ExceedsCap: a plan that equals the cap aborts too.
ExceedsCapInclusive(planned, cap) == planned >= cap

\* Mutant of ExceedsCap: one batch over the cap is let through.
ExceedsCapLax(planned, cap) == planned > cap + 1

\* planned_calls > args.daily_call_cap
ExceedsCap(planned, cap) == planned > cap

\* Mutant of OpenOutput: the output is opened with "w" whatever --resume says.
OpenOutputTruncating(f, resume) == [exists |-> TRUE, data |-> << >>]

\* args.output.open("a" if args.resume else "w")
OpenOutput(f, resume) ==
    IF resume /\ f.exists THEN f ELSE File(<< >>)

\* Mutant of CapCheck: the output stream is opened before the cap is checked.
CapCheckAfterOpen ==
    /\ phase = "CAP_CHECK"
    /\ outFile' = OpenOutput(outFile, args.resume)
    /\ openLen' = Len(outFile'.data)
    /\ IF ExceedsCap(Len(batches), args.daily_call_cap)
       THEN /\ phase' = "ABORT_CAP"
            /\ UNCHANGED <<call_timestamps, total_inputs>>
       ELSE /\ call_timestamps' = << >>
            /\ total_inputs' = 0
            /\ phase' = "DISPATCHING"
    /\ UNCHANGED <<run, fetch, args, inputLines, lines, processed_ids, batches,
                   clock, pending, wk, write_lock, futures,
                   admitted, requests, hist>>

\* Lines 211-234: the cap check, then the limiter's state and the output stream.
CapCheck ==
    /\ phase = "CAP_CHECK"
    /\ IF ExceedsCap(Len(batches), args.daily_call_cap)
       THEN /\ phase' = "ABORT_CAP"
            /\ UNCHANGED <<outFile, openLen, call_timestamps, total_inputs>>
       ELSE /\ call_timestamps' = << >>
            /\ outFile' = OpenOutput(outFile, args.resume)
            /\ openLen' = Len(outFile'.data)
            /\ total_inputs' = 0
            /\ phase' = "DISPATCHING"
    /\ UNCHANGED <<run, fetch, args, inputLines, lines, processed_ids, batches,
                   clock, pending, wk, write_lock, futures,
                   admitted, requests, hist>>

\* The sequence backwards.
Reverse(sq) == [k \in DOMAIN sq |-> sq[Len(sq) + 1 - k]]

\* Mutant of Dispatch: the batches are submitted last first.
DispatchReversed ==
    /\ phase = "DISPATCHING"
    /\ pending' = Reverse(batches)
    /\ hist' = [i \in {batches[k].start_index : k \in DOMAIN batches} |-> << >>]
    /\ futures' = [i \in {batches[k].start_index : k \in DOMAIN batches} |-> "pending"]
    /\ phase' = "DRAINING"
    /\ UNCHANGED <<run, fetch, args, inputLines, outFile, lines, processed_ids, batches,
                   call_timestamps, clock, wk, write_lock,
                   total_inputs, openLen, admitted, requests>>

\* Lines 278-279: every batch is submitted, in order.
Dispatch ==
    /\ phase = "DISPATCHING"
    /\ pending' = batches
    /\ hist' = [i \in {batches[k].start_index : k \in DOMAIN batches} |-> << >>]
    /\ futures' = [i \in {batches[k].start_index : k \in DOMAIN batches} |-> "pending"]
    /\ phase' = "DRAINING"
    /\ UNCHANGED <<run, fetch, args, inputLines, outFile, lines, processed_ids, batches,
                   call_timestamps, clock, wk, write_lock,
                   total_inputs, openLen, admitted, requests>>

\* ------------------------------------------------------------ wait_for_slot

\* Mutant of Expired: a timestamp exactly 60 s old is dropped too.
ExpiredAtBoundary(now, ts) == now - ts >= WINDOW

\* Mutant of Expired: a timestamp is never dropped.
ExpiredNever(now, ts) == FALSE

\* now - call_timestamps[0] > 60
Expired(now, ts) == now - ts > WINDOW

\* Mutant of Evict: the queue is emptied whatever the age of its entries.
EvictAll(q, now) == << >>

\* while call_timestamps and expired(call_timestamps[0]): call_timestamps.popleft()
RECURSIVE Evict(_, _)
Evict(q, now) ==
    IF q # << >> /\ Expired(now, Head(q)) THEN Evict(Tail(q), now) ELSE q

\* len(call_timestamps) < args.calls_per_minute
HasSlot(q, cpm) == Len(q) < cpm

\* --------------------------------------------------------- process_batch

\* What one requests.post can come to: the rate-limit status, an exception
\* (transport failure, error status, malformed reply) or a message content.
ErrTexts == {"timeout", "http 500"}
Contents == {Some(ArrayText), Some(GarbageText), Some(EmptyText), None}
Outcomes ==
    {[kind |-> "429"]}
    \cup {[kind |-> "exc", text |-> e] : e \in ErrTexts}
    \cup {[kind |-> "body", content |-> c] : c \in Contents}

ParseErrorMsg == <<"parse_error">>
ExceptionMsg(e) == <<"exception: ", e>>

\* bool(x) of an optional string
Truthy(x) == x # None /\ x[1] # << >>

\* Mutant of FinalRaw: the error text is never substituted.
FinalRawNoFallback(response_text, parsed, error_msg) == response_text

\* Mutant of FinalRaw: the error text is preferred to an earlier response.
FinalRawErrorFirst(response_text, parsed, error_msg) ==
    IF parsed = None /\ Truthy(error_msg) THEN error_msg ELSE response_text

\* Lines 263-264: the text the record carries as model_raw.
FinalRaw(response_text, parsed, error_msg) ==
    IF parsed = None /\ Truthy(error_msg)
    THEN (IF Truthy(response_text) THEN response_text ELSE error_msg)
    ELSE response_text

\* Mutant of MakeRecord: the ids are recorded only with a parsed result.
MakeRecordIdsOnSuccess(l) ==
    [batch_start_index |-> l.idx,
     input_ids |-> IF l.parsed = None THEN << >>
                   ELSE [k \in DOMAIN l.items |-> l.items[k].id],
     model_raw |-> l.response_text,
     model_parsed |-> l.parsed]

\* Lines 266-271
MakeRecord(l) ==
    [batch_start_index |-> l.idx,
     input_ids |-> [k \in DOMAIN l.items |-> l.items[k].id],
     model_raw |-> l.response_text,
     model_parsed |-> l.parsed]

\* Leaving the retry loop: lines 263-264, then the worker is ready to write.
LeaveLoop(l) ==
    [l EXCEPT !.pc = "write",
              !.response_text = FinalRaw(l.response_text, l.parsed, l.error_msg)]

\* Mutant of EnterAttempt: the loop runs once more than max_retries says.
EnterAttemptOneMore(l, a) ==
    IF a <= args.max_retries + 1
    THEN [l EXCEPT !.pc = "wait_slot", !.attempt = a, !.wakeAt = 0]
    ELSE LeaveLoop(l)

\* The head of `for attempt in range(1, max_retries + 1)`.
EnterAttempt(l, a) ==
    IF a <= args.max_retries
    THEN [l EXCEPT !.pc = "wait_slot", !.attempt = a, !.wakeAt = 0]
    ELSE LeaveLoop(l)

\* A pool thread takes the next submitted batch and starts process_batch.
TakeTask(w) ==
    /\ phase = "DRAINING"
    /\ wk[w].pc = "idle"
    /\ pending # << >>
    /\ LET b == Head(pending)
       IN  /\ wk' = [wk EXCEPT ![w] =
                        EnterAttempt([IdleWorker EXCEPT !.idx = b.start_index,
                                                        !.items = b.items], 1)]
           /\ futures' = [futures EXCEPT ![b.start_index] = "running"]
    /\ pending' = Tail(pending)
    /\ UNCHANGED <<run, fetch, args, inputLines, outFile, phase, lines, processed_ids, batches,
                   call_timestamps, clock, write_lock,
                   total_inputs, openLen, admitted, requests, hist>>

\* One pass of wait_for_slot's loop, under limiter_lock: lines 221-229.
WaitForSlot(w) ==
    /\ wk[w].pc = "wait_slot"
    /\ clock >= wk[w].wakeAt
    /\ LET now == clock
           q == Evict(call_timestamps, now)
       IN  IF HasSlot(q, args.calls_per_minute)
           THEN /\ call_timestamps' = Append(q, now)
                /\ admitted' = Append(admitted, now)
                /\ wk' = [wk EXCEPT ![w].pc = "post1"]
           ELSE /\ call_timestamps' = q
                /\ wk' = [wk EXCEPT ![w].wakeAt = clock + PollSleep]
                /\ UNCHANGED admitted
    /\ UNCHANGED <<run, fetch, args, inputLines, outFile, phase, lines, processed_ids, batches,
                   clock, pending, write_lock, futures,
                   total_inputs, openLen, requests, hist>>

\* Lines 252-261 once call_openrouter has returned `content` or raised `e`.
AfterCall(l, o) ==
    LET failed(msg, rt) ==
            [l EXCEPT !.pc = "backoff", !.response_text = rt, !.error_msg = Some(msg),
                      !.wakeAt = clock + Backoff(l.attempt)]
    IN  IF o.kind = "exc" THEN failed(ExceptionMsg(o.text), l.response_text)
        ELSE IF o.content = None
             THEN failed(ExceptionMsg("AttributeError"), None)
        ELSE LET p == parse_model_json(o.content[1])
             IN  IF p # None
                 THEN LeaveLoop([l EXCEPT !.response_text = o.content, !.parsed = p])
                 ELSE failed(ParseErrorMsg, o.content)

\* What the attempt comes to, as the history records it: an exception of
\* call_openrouter, a null content (parse_model_json then raises), or a content.
AttemptResult(o) ==
    IF o.kind = "exc" THEN [kind |-> "exc", text |-> Some(ExceptionMsg(o.text))]
    ELSE IF o.content = None
         THEN [kind |-> "null", text |-> Some(ExceptionMsg("AttributeError"))]
         ELSE [kind |-> "body", text |-> o.content]

\* Line 107: the first POST of call_openrouter; a 429 sleeps 5 s (line 109).
Post1(w) ==
    /\ wk[w].pc = "post1"
    /\ requests' = Append(requests, clock)
    /\ \E o \in Outcomes :
          IF o.kind = "429"
          THEN /\ wk' = [wk EXCEPT ![w].pc = "post2",
                                   ![w].wakeAt = clock + RateLimitSleep]
               /\ UNCHANGED hist
          ELSE /\ wk' = [wk EXCEPT ![w] = AfterCall(wk[w], o)]
               /\ hist' = [hist EXCEPT ![wk[w].idx] = Append(@, AttemptResult(o))]
    /\ UNCHANGED <<run, fetch, args, inputLines, outFile, phase, lines, processed_ids, batches,
                   call_timestamps, clock, pending, write_lock, futures,
                   total_inputs, openLen, admitted>>

\* Mutant of Post2: a second 429 sleeps and sends the request again.
Post2Again(w) ==
    /\ wk[w].pc = "post2"
    /\ clock >= wk[w].wakeAt
    /\ requests' = Append(requests, clock)
    /\ \E o \in Outcomes :
          IF o.kind = "429"
          THEN /\ wk' = [wk EXCEPT ![w].wakeAt = clock + RateLimitSleep]
               /\ UNCHANGED hist
          ELSE /\ wk' = [wk EXCEPT ![w] = AfterCall(wk[w], o)]
               /\ hist' = [hist EXCEPT ![wk[w].idx] = Append(@, AttemptResult(o))]
    /\ UNCHANGED <<run, fetch, args, inputLines, outFile, phase, lines, processed_ids, batches,
                   call_timestamps, clock, pending, write_lock, futures,
                   total_inputs, openLen, admitted>>

\* Lines 110-113: the second POST; raise_for_status raises on a second 429.
Post2(w) ==
    /\ wk[w].pc = "post2"
    /\ clock >= wk[w].wakeAt
    /\ requests' = Append(requests, clock)
    /\ \E o \in Outcomes :
          LET o2 == IF o.kind = "429" THEN [kind |-> "exc", text |-> "http 429"] ELSE o
          IN  /\ wk' = [wk EXCEPT ![w] = AfterCall(wk[w], o2)]
              /\ hist' = [hist EXCEPT ![wk[w].idx] = Append(@, AttemptResult(o2))]
    /\ UNCHANGED <<run, fetch, args, inputLines, outFile, phase, lines, processed_ids, batches,
                   call_timestamps, clock, pending, write_lock, futures,
                   total_inputs, openLen, admitted>>

\* Line 261 has slept: the next attempt, or the end of the loop.
EndBackoff(w) ==
    /\ wk[w].pc = "backoff"
    /\ clock >= wk[w].wakeAt
    /\ wk' = [wk EXCEPT ![w] = EnterAttempt(wk[w], wk[w].attempt + 1)]
    /\ UNCHANGED <<run, fetch, args, inputLines, outFile, phase, lines, processed_ids, batches,
                   call_timestamps, clock, pending, write_lock, futures,
                   total_inputs, openLen, admitted, requests, hist>>

\* Mutant of LockFree: the record is written without waiting for the lock.
LockIgnored(holder) == TRUE

\* write_lock can be taken
LockFree(holder) == holder = 0

\* Lines 272-273: take write_lock and write the record.
WriteRecord(w) ==
    /\ wk[w].pc = "write"
    /\ LockFree(write_lock)
    /\ write_lock' = w
    /\ outFile' = [outFile EXCEPT !.data = Append(@, RecTok(MakeRecord(wk[w])))]
    /\ wk' = [wk EXCEPT ![w].pc = "write_nl"]
    /\ UNCHANGED <<run, fetch, args, inputLines, phase, lines, processed_ids, batches,
                   call_timestamps, clock, pending, futures,
                   total_inputs, openLen, admitted, requests, hist>>

\* Lines 274-276: the newline, the flush, the release; the future completes.
WriteNewline(w) ==
    /\ wk[w].pc = "write_nl"
    /\ outFile' = [outFile EXCEPT !.data = Append(@, NL)]
    /\ write_lock' = 0
    /\ futures' = [futures EXCEPT ![wk[w].idx] = "finished"]
    /\ wk' = [wk EXCEPT ![w] = IdleWorker]
    /\ UNCHANGED <<run, fetch, args, inputLines, phase, lines, processed_ids, batches,
                   call_timestamps, clock, pending,
                   total_inputs, openLen, admitted, requests, hist>>

BatchAt(i) == batches[CHOOSE k \in DOMAIN batches : batches[k].start_index = i]

\* Lines 280-281: as_completed hands over a finished future.
Collect(i) ==
    /\ phase = "DRAINING"
    /\ futures[i] = "finished"
    /\ futures' = [futures EXCEPT ![i] = "collected"]
    /\ total_inputs' = total_inputs + Len(BatchAt(i).items)
    /\ UNCHANGED <<run, fetch, args, inputLines, outFile, phase, lines, processed_ids, batches,
                   call_timestamps, clock, pending, wk, write_lock,
                   openLen, admitted, requests, hist>>

\* Lines 282-284: every future was collected; the stream is closed.
Finish ==
    /\ phase = "DRAINING"
    /\ \A i \in DOMAIN futures : futures[i] = "collected"
    /\ phase' = "DONE"
    /\ UNCHANGED <<run, fetch, args, inputLines, outFile, lines, processed_ids, batches,
                   call_timestamps, clock, pending, wk, write_lock, futures,
                   total_inputs, openLen, admitted, requests, hist>>

\* The instants at which something becomes due: the end of a sleep of line
\* 109 or 261 and, while a thread polls a full limiter, the last instant the
\* oldest timestamp is inside the window and the first at which it is outside.
Deadlines ==
    {wk[w].wakeAt : w \in {v \in Workers : wk[v].pc \in {"post2", "backoff"}}}
    \cup (IF \E w \in Workers : wk[w].pc = "wait_slot" /\ wk[w].wakeAt > clock
          THEN {Head(call_timestamps) + WINDOW, Head(call_timestamps) + WINDOW + 1}
          ELSE {})

\* Time passes while the pool works.
Tick(t) ==
    /\ phase = "DRAINING"
    /\ t > clock
    /\ t <= MaxTime
    /\ clock' = t
    /\ UNCHANGED <<run, fetch, args, inputLines, outFile, phase, lines, processed_ids, batches,
                   call_timestamps, pending, wk, write_lock, futures,
                   total_inputs, openLen, admitted, requests, hist>>

\* ------------------------------------------------------- specifications

\* fetch_openalex has not been called.
NoFetch == [pc |-> "off"]

InitRest ==
    /\ run = 1
    /\ fetch = NoFetch
    /\ phase = "START"
    /\ lines = << >>
    /\ processed_ids = {}
    /\ batches = << >>
    /\ call_timestamps = << >>
    /\ clock = 0
    /\ pending = << >>
    /\ wk = [w \in 1..MaxWorkers |-> IdleWorker]
    /\ write_lock = 0
    /\ futures = << >>
    /\ total_inputs = 0
    /\ openLen = 0
    /\ admitted = << >>
    /\ requests = << >>
    /\ hist = << >>

\* The k-th line of a generated input file.
GenLine(k) == Line(((k - 1) % MaxId) + 1)

PriorRecord(ids) ==
    [batch_start_index |-> 0, input_ids |-> ids,
     model_raw |-> Some(ArrayText), model_parsed |-> Some(ArrayText)]

\* The record an earlier run wrote for a batch whose attempts all failed.
FailedRecord(ids) ==
    [batch_start_index |-> 0, input_ids |-> ids,
     model_raw |-> Some(ExceptionMsg("timeout")), model_parsed |-> None]

\* A full run: a short input, no slicing, an output that is absent or holds
\* one earlier record. MaxLoad bounds the work of a run: with two lines, two
\* threads make one attempt per batch, or one thread retries.
Init ==
    /\ args \in [api_key : BOOLEAN, start : {0}, max : {None},
                 batch_size : 1..MaxLines, concurrency : 1..MaxWorkers,
                 calls_per_minute : 1..MaxCpm, daily_call_cap : 0..MaxCap,
                 max_retries : 0..MaxRetries, resume : BOOLEAN]
    /\ inputLines \in {[k \in 1..n |-> GenLine(k)] : n \in 0..MaxLines}
    /\ Len(inputLines) * args.concurrency * args.max_retries <= MaxLoad
    /\ outFile \in {NoFile, File(<<RecTok(PriorRecord(<<1>>)), NL>>)}
    /\ InitRest

Next ==
    \/ CheckCredential
    \/ Load
    \/ ResumeScan
    \/ BuildBatches
    \/ CapCheck
    \/ Dispatch
    \/ \E w \in Workers : TakeTask(w)
    \/ \E w \in Workers : WaitForSlot(w)
    \/ \E w \in Workers : Post1(w)
    \/ \E w \in Workers : Post2(w)
    \/ \E w \in Workers : EndBackoff(w)
    \/ \E w \in Workers : WriteRecord(w)
    \/ \E w \in Workers : WriteNewline(w)
    \/ \E i \in DOMAIN futures : Collect(i)
    \/ Finish
    \/ \E t \in Deadlines : Tick(t)

Spec == Init /\ [][Next]_vars

\* ------------------------------------------------ the pre-flight alone

GenLines(n) == [k \in 1..n |-> GenLine(k)]

\* Existing output files: up to MaxPriorLines lines, each an earlier record,
\* of a parsed or of a failed batch, or bytes that are not JSON.
PriorLineSeq == <<<<RecTok(PriorRecord(<< >>)), NL>>,
                  <<RecTok(PriorRecord(<<1>>)), NL>>,
                  <<Garbage, NL>>,
                  <<RecTok(FailedRecord(<<2>>)), NL>>,
                  <<RecTok(PriorRecord(<<1, 2>>)), NL>>>>
\* The lines of PriorLineSeq chosen by S, from the k-th on, in that order.
RECURSIVE PriorData(_, _)
PriorData(S, k) ==
    IF k > Len(PriorLineSeq) THEN << >>
    ELSE (IF k \in S THEN PriorLineSeq[k] ELSE << >>) \o PriorData(S, k + 1)
PriorFiles ==
    {NoFile}
    \cup {File(PriorData(S, 1)) :
             S \in {T \in SUBSET DOMAIN PriorLineSeq : Cardinality(T) <= MaxPriorLines}}

\* The command lines of the pre-flight runs: the small ranges, and the values
\* of the documented scenario (25 lines, batch size 10, start 5, max 12).
PreLineCounts == 0..MaxPreLines \cup {25}
PreStarts == 0..MaxPreStart \cup {5}
PreMaxes == {None} \cup {Some(m) : m \in 0..MaxPreMax \cup {12}}
PreBatchSizes == 1..MaxPreBatch \cup {10}

InitPre ==
    /\ args \in [api_key : BOOLEAN, start : PreStarts, max : PreMaxes,
                 batch_size : PreBatchSizes, concurrency : {1},
                 calls_per_minute : {1}, daily_call_cap : 0..MaxCap,
                 max_retries : {1}, resume : BOOLEAN]
    /\ inputLines \in {GenLines(n) : n \in PreLineCounts}
                      \cup {Append(GenLines(n), BadLine) : n \in 0..MaxPreLines}
    /\ outFile \in PriorFiles
    /\ InitRest

NextPre ==
    \/ CheckCredential
    \/ Load
    \/ ResumeScan
    \/ BuildBatches
    \/ CapCheck

SpecPre == InitPre /\ [][NextPre]_vars

\* ------------------------------------------- runs over existing outputs

\* Existing output files of a run that writes: none, an empty one, whole
\* lines, and files whose last line has no newline (a record or other bytes
\* cut short when an earlier run was stopped between lines 273 and 274).
OutFiles ==
    {NoFile, File(<< >>),
     File(<<RecTok(PriorRecord(<<1>>)), NL>>),
     File(<<RecTok(PriorRecord(<<1>>))>>),
     File(<<Garbage>>),
     File(<<RecTok(PriorRecord(<<1>>)), NL, Garbage>>)}

\* Full runs with a key and a cap that lets the plan through, one attempt per
\* batch, over each of the existing outputs.
InitOut ==
    /\ args \in [api_key : {TRUE}, start : {0}, max : {None},
                 batch_size : 1..MaxLines, concurrency : 1..MaxWorkers,
                 calls_per_minute : {MaxCpm}, daily_call_cap : {MaxCap},
                 max_retries : {1}, resume : BOOLEAN]
    /\ inputLines \in {GenLines(n) : n \in 1..MaxLines}
    /\ Len(inputLines) * args.concurrency <= MaxLoad
    /\ outFile \in OutFiles
    /\ InitRest

SpecOut == InitOut /\ [][Next]_vars

\* ------------------------------------------------ runs under fair scheduling

\* Time passes while the pool works, as far as the sleeps of the run reach.
Advance(t) ==
    /\ phase = "DRAINING"
    /\ t > clock
    /\ clock' = t
    /\ UNCHANGED <<run, fetch, args, inputLines, outFile, phase, lines, processed_ids, batches,
                   call_timestamps, pending, wk, write_lock, futures,
                   total_inputs, openLen, admitted, requests, hist>>

\* The steps of the main thread, of pool thread w, and of the clock.
MainStep ==
    \/ CheckCredential
    \/ Load
    \/ ResumeScan
    \/ BuildBatches
    \/ CapCheck
    \/ Dispatch
    \/ \E i \in DOMAIN futures : Collect(i)
    \/ Finish
WorkerStep(w) ==
    /\ w \in Workers
    /\ \/ TakeTask(w)
       \/ WaitForSlot(w)
       \/ Post1(w)
       \/ Post2(w)
       \/ EndBackoff(w)
       \/ WriteRecord(w)
       \/ WriteNewline(w)
TimeStep == \E t \in Deadlines : Advance(t)

\* Runs that pass the pre-flight, with at most one attempt more than a
\* window admits, so that at most one window has to pass.
InitLive ==
    /\ args \in [api_key : {TRUE}, start : {0}, max : {None},
                 batch_size : 1..MaxLines, concurrency : 1..MaxWorkers,
                 calls_per_minute : 1..MaxCpm, daily_call_cap : {MaxCap},
                 max_retries : 0..MaxRetries, resume : {FALSE}]
    /\ inputLines \in {GenLines(n) : n \in 0..MaxLines}
    /\ Len(inputLines) * args.concurrency * args.max_retries <= MaxLoad
    /\ Len(inputLines) * args.max_retries <= args.calls_per_minute + 1
    /\ outFile = NoFile
    /\ InitRest

NextLive ==
    \/ MainStep
    \/ \E w \in Workers : WorkerStep(w)
    \/ TimeStep

\* The scheduler runs every thread that can take a step, every request
\* returns or fails (Post1, Post2), and time advances.
Fairness ==
    /\ WF_vars(MainStep)
    /\ \A w \in 1..MaxWorkers : WF_vars(WorkerStep(w))
    /\ WF_vars(TimeStep)

SpecLive == InitLive /\ [][NextLive]_vars /\ Fairness

\* --------------------------------------------- runs over response texts

\* The characters of a response: the tokens of a JSON array of numbers,
\* whitespace, and a letter of prose.
Alphabet == {"[", "]", "1", ",", " ", "x"}

\* The texts of up to m characters.
Texts(m) == {<< >>} \cup UNION {[1..n -> Alphabet] : n \in 1..m}

\* Line 107 answered with a message content, any text: lines 252-257.
PostText(w) ==
    /\ wk[w].pc = "post1"
    /\ requests' = Append(requests, clock)
    /\ \E t \in Texts(MaxTextLen) :
          LET o == [kind |-> "body", content |-> Some(t)]
          IN  /\ wk' = [wk EXCEPT ![w] = AfterCall(wk[w], o)]
              /\ hist' = [hist EXCEPT ![wk[w].idx] = Append(@, AttemptResult(o))]
    /\ UNCHANGED <<run, fetch, args, inputLines, outFile, phase, lines, processed_ids, batches,
                   call_timestamps, clock, pending, write_lock, futures,
                   total_inputs, openLen, admitted>>

\* A run of one batch and one attempt.
InitParse ==
    /\ args = [api_key |-> TRUE, start |-> 0, max |-> None,
               batch_size |-> 1, concurrency |-> 1,
               calls_per_minute |-> 1, daily_call_cap |-> 1,
               max_retries |-> 1, resume |-> FALSE]
    /\ inputLines = GenLines(1)
    /\ outFile = NoFile
    /\ InitRest

NextParse ==
    \/ MainStep
    \/ \E w \in Workers : TakeTask(w)
    \/ \E w \in Workers : WaitForSlot(w)
    \/ \E w \in Workers : PostText(w)
    \/ \E w \in Workers : EndBackoff(w)
    \/ \E w \in Workers : WriteRecord(w)
    \/ \E w \in Workers : WriteNewline(w)
    \/ TimeStep

SpecParse == InitParse /\ [][NextParse]_vars

\* ------------------------------------------------------ a run and a re-run

\* Lines 137-284 a second time: after a run reached DONE, main() is started
\* again with --resume and otherwise the same arguments, on the same input
\* and on the output file the first run left. Every local starts afresh.
Rerun ==
    /\ phase = "DONE"
    /\ run = 1
    /\ run' = 2
    /\ args' = [args EXCEPT !.resume = TRUE]
    /\ phase' = "START"
    /\ lines' = << >>
    /\ processed_ids' = {}
    /\ batches' = << >>
    /\ call_timestamps' = << >>
    /\ clock' = 0
    /\ pending' = << >>
    /\ wk' = [w \in 1..MaxWorkers |-> IdleWorker]
    /\ write_lock' = 0
    /\ futures' = << >>
    /\ total_inputs' = 0
    /\ openLen' = 0
    /\ admitted' = << >>
    /\ requests' = << >>
    /\ hist' = << >>
    /\ UNCHANGED <<fetch, inputLines, outFile>>

\* The runs that can reach DONE, each followed by its re-run.
InitRerun == Init /\ args.api_key

NextRerun == Next \/ Rerun

SpecRerun == InitRerun /\ [][NextRerun]_vars

\* --------------------------------------------------------- fetch_openalex

\* The results of page p of the service: n items, named by page and place.
Page(p, n) == [j \in 1..n |-> <<p, j>>]

\* What the service holds: up to m pages of up to n results each; every page
\* but the last names the next one as its next_cursor.
PageSets(m, n) ==
    UNION {{[p \in 1..k |-> Page(p, sizes[p])] : sizes \in [1..k -> 0..n]} : k \in 1..m}

\* meta.next_cursor of page c; 0 stands for a missing or null cursor.
NextCursor(pages, c) == IF c < Len(pages) THEN c + 1 ELSE 0

\* Lines 111-115: the items yielded from one page, the count after them, and
\* whether the generator returned inside the loop.
RECURSIVE YieldLoop(_, _, _)
YieldLoop(items, fetched, max_results) ==
    IF items = << >>
    THEN [out |-> << >>, fetched |-> fetched, returned |-> FALSE]
    ELSE IF max_results # None /\ max_results[1] # 0 /\ fetched + 1 >= max_results[1]
         THEN [out |-> <<Head(items)>>, fetched |-> fetched + 1, returned |-> TRUE]
         ELSE LET r == YieldLoop(Tail(items), fetched + 1, max_results)
              IN  [r EXCEPT !.out = <<Head(items)>> \o @]

\* One request of line 102 and its answer, as the history keeps it.
Get(c, status) == [cursor |-> c, status |-> status]

\* Lines 84-86: the call, with cursor "*" (page 1) and nothing fetched.
StartFetch(pages, max_results) ==
    [pc |-> "get", pages |-> pages, max_results |-> max_results,
     cursor |-> 1, fetched |-> 0, yielded |-> << >>, gets |-> << >>]

Limited == Cardinality({k \in DOMAIN fetch.gets : fetch.gets[k].status = 429})

\* Mutant of FetchRateLimited: after the sleep the next page is asked for.
FetchRateLimitedSkips ==
    /\ fetch.pc = "get"
    /\ Limited < MaxRateLimited
    /\ fetch' = [fetch EXCEPT !.gets = Append(@, Get(fetch.cursor, 429)),
                              !.cursor = IF fetch.cursor < Len(fetch.pages)
                                         THEN fetch.cursor + 1 ELSE fetch.cursor]
    /\ UNCHANGED mainVars

\* Lines 102-106: the answer is 429; sleep, then the same request again.
FetchRateLimited ==
    /\ fetch.pc = "get"
    /\ Limited < MaxRateLimited
    /\ fetch' = [fetch EXCEPT !.gets = Append(@, Get(fetch.cursor, 429))]
    /\ UNCHANGED mainVars

\* Lines 102-107: an error status other than 429; raise_for_status raises.
FetchError ==
    /\ fetch.pc = "get"
    /\ fetch' = [fetch EXCEPT !.gets = Append(@, Get(fetch.cursor, 500)),
                              !.pc = "raised"]
    /\ UNCHANGED mainVars

\* Lines 102-119: a page arrives; its items are yielded up to the cap, then
\* the cursor moves on or the generator ends.
FetchPage ==
    /\ fetch.pc = "get"
    /\ LET r == YieldLoop(fetch.pages[fetch.cursor], fetch.fetched, fetch.max_results)
           next == NextCursor(fetch.pages, fetch.cursor)
       IN  fetch' = [fetch EXCEPT
                        !.gets = Append(@, Get(fetch.cursor, 200)),
                        !.yielded = @ \o r.out,
                        !.fetched = r.fetched,
                        !.cursor = IF r.returned THEN @ ELSE next,
                        !.pc = IF r.returned \/ next = 0 THEN "done" ELSE "get"]
    /\ UNCHANGED mainVars

\* A call of fetch_openalex for each content of the service and each cap.
InitFetch ==
    /\ fetch \in {StartFetch(pages, m) :
                     pages \in PageSets(MaxPages, MaxPerPage),
                     m \in {None} \cup {Some(n) : n \in 0..MaxResults}}
    /\ args = [api_key |-> FALSE, start |-> 0, max |-> None,
               batch_size |-> 1, concurrency |-> 1,
               calls_per_minute |-> 1, daily_call_cap |-> 1,
               max_retries |-> 1, resume |-> FALSE]
    /\ run = 1
    /\ inputLines = << >>
    /\ outFile = NoFile
    /\ phase = "START"
    /\ lines = << >>
    /\ processed_ids = {}
    /\ batches = << >>
    /\ call_timestamps = << >>
    /\ clock = 0
    /\ pending = << >>
    /\ wk = [w \in 1..MaxWorkers |-> IdleWorker]
    /\ write_lock = 0
    /\ futures = << >>
    /\ total_inputs = 0
    /\ openLen = 0
    /\ admitted = << >>
    /\ requests = << >>
    /\ hist = << >>

NextFetch ==
    \/ FetchRateLimited
    \/ FetchError
    \/ FetchPage

SpecFetch == InitFetch /\ [][NextFetch]_vars

\* ------------------------------------------- runs over inverted indexes

\* Words: two plain ones and one that holds a space.
Words == {<<"a">>, <<"b">>, <<"a", " ", "b">>}

\* The elements of a set of numbers, ascending.
RECURSIVE Ascending(_)
Ascending(S) ==
    IF S = {} THEN << >>
    ELSE LET m == CHOOSE x \in S : \A y \in S : x <= y
         IN  <<m>> \o Ascending(S \ {m})

PosLists == {Ascending(S) : S \in SUBSET (0..MaxPos)}

\* The keys of a dictionary are distinct: n words, in any order.
WordSeqs(n) ==
    {ws \in [1..n -> Words] : \A j, k \in 1..n : j # k => ws[j] # ws[k]}

\* The indexes of up to m entries.
InvIndexes(m) ==
    {<< >>}
    \cup UNION {{[k \in 1..n |-> Entry(ws[k], ps[k])] :
                    ws \in WordSeqs(n), ps \in [1..n -> PosLists]} :
                n \in 1..m}

\* The pre-flight of a run over one input line, for each inverted index.
InitAbs ==
    /\ args = [api_key |-> TRUE, start |-> 0, max |-> None,
               batch_size |-> 1, concurrency |-> 1,
               calls_per_minute |-> 1, daily_call_cap |-> 1,
               max_retries |-> 1, resume |-> FALSE]
    /\ inputLines \in {<<LineWith(1, inv)>> : inv \in InvIndexes(MaxWords)}
    /\ outFile = NoFile
    /\ InitRest

SpecAbs == InitAbs /\ [][NextPre]_vars

\* ------------------------------------------------------------- properties

Started == phase \in {"DISPATCHING", "DRAINING", "DONE"}

\* The number of entries of `times` inside the closed window [t, t + WINDOW].
InWindow(times, t) ==
    Cardinality({j \in DOMAIN times : t <= times[j] /\ times[j] <= t + WINDOW})

\* A window holding the most entries can be taken to start at one of them.
WindowBound(times, cap) ==
    \A i \in DOMAIN times : InWindow(times, times[i]) <= cap

\* C1: for any number of worker threads and any interleaving, no 60-second
\* window contains more than calls_per_minute admissions of wait_for_slot.
C1_AdmissionsPerWindow == WindowBound(admitted, args.calls_per_minute)

\* C1 witness: two threads, the second admitted at the first instant the
\* first timestamp has left the window.
C1_Witness ==
    /\ args.concurrency = 2
    /\ Len(admitted) = 2
    /\ admitted[2] = admitted[1] + WINDOW + 1

\* C2: no 60-second window contains more than calls_per_minute outbound POSTs,
\* the second POST after a 429 counted.
C2_RequestsPerWindow == WindowBound(requests, args.calls_per_minute)

\* C3: the cap check is fail-fast: more batches than daily_call_cap abort the
\* run before any dispatch and no call is ever made; otherwise the run goes
\* on to DISPATCHING.
C3_CapFailFast ==
    /\ [](phase = "ABORT_CAP" =>
             /\ Len(batches) > args.daily_call_cap
             /\ requests = << >> /\ admitted = << >> /\ pending = << >>
             /\ \A w \in DOMAIN wk : wk[w].pc = "idle")
    /\ [][/\ phase = "CAP_CHECK" =>
                phase' = IF Len(batches) > args.daily_call_cap
                         THEN "ABORT_CAP" ELSE "DISPATCHING"
          /\ phase = "ABORT_CAP" => UNCHANGED vars]_vars

\* C3 witness: a run aborted with one batch more than the cap.
C3_Witness ==
    /\ phase = "ABORT_CAP"
    /\ Len(batches) = args.daily_call_cap + 1
    /\ args.daily_call_cap >= 1

\* C4 as stated: the requests of a whole run number at most daily_call_cap.
C4_RequestsWithinCap == Len(requests) <= args.daily_call_cap

\* C4, amended: a run that passes the cap check has at most daily_call_cap
\* batches, and makes at most two requests in each of at most max_retries
\* attempts per batch.
C4_BatchesWithinCap ==
    Started =>
        /\ Len(batches) <= args.daily_call_cap
        /\ Len(requests) <= 2 * args.max_retries * Len(batches)

\* C4 witness: a finished run with as many batches as the cap allows and
\* more requests than the cap.
C4_Witness ==
    /\ phase = "DONE"
    /\ Len(batches) = args.daily_call_cap
    /\ Len(requests) > args.daily_call_cap

\* ------------------------------------------- properties of batch building

BatchesBuilt == phase \in {"CAP_CHECK", "ABORT_CAP", "DISPATCHING", "DRAINING", "DONE"}

CeilDiv(n, b) == (n + b - 1) \div b

\* The i-th group (from 0) of the sliced lines, as the claims describe it.
ExpectedBatch(i) ==
    LET B == args.batch_size
        N == Len(lines)
    IN  [start_index |-> args.start + i * B,
         items |-> [k \in 1..(Min((i + 1) * B, N) - i * B) |-> Item(lines[i * B + k])]]

\* C5: without resume there are ceil(N/B) batches, batch i starts at
\* start + i*B and holds the sliced lines i*B .. min((i+1)*B, N)-1 in order,
\* so that every sliced line is in exactly one batch.
C5_BatchPartition ==
    (BatchesBuilt /\ ~ args.resume) =>
        /\ Len(batches) = CeilDiv(Len(lines), args.batch_size)
        /\ \A i \in 0..(Len(batches) - 1) : batches[i + 1] = ExpectedBatch(i)

\* C5 witness: the documented scenario, 25 lines with start 5, max 12 and
\* batch size 10: two batches of 10 and 2 lines starting at 5 and 15.
C5_Witness ==
    /\ phase = "CAP_CHECK" /\ ~ args.resume
    /\ Len(inputLines) = 25 /\ args.start = 5 /\ args.max = Some(12)
    /\ args.batch_size = 10
    /\ Len(lines) = 12
    /\ Len(batches) = 2
    /\ batches[1].start_index = 5 /\ Len(batches[1].items) = 10
    /\ batches[2].start_index = 15 /\ Len(batches[2].items) = 2

Covered(b) == \A k \in DOMAIN b.items : b.items[k].id \in processed_ids

\* C6: with resume and an existing log, a batch is left out of the work queue
\* exactly when all its ids are among the ids read from the log; every other
\* batch is queued whole, in input order.
C6_ResumeDropsCovered ==
    (phase = "CAP_CHECK" /\ args.resume /\ outFile.exists) =>
        LET n == CeilDiv(Len(lines), args.batch_size)
        IN  /\ \A i \in 0..(n - 1) :
                  (\E j \in DOMAIN batches : batches[j] = ExpectedBatch(i))
                  <=> ~ Covered(ExpectedBatch(i))
            /\ \A j \in DOMAIN batches :
                  \E i \in 0..(n - 1) : batches[j] = ExpectedBatch(i)
            /\ \A j \in 1..(Len(batches) - 1) :
                  batches[j].start_index < batches[j + 1].start_index

\* C6 witness: a resumed run in which one batch is dropped and a batch with
\* one covered and one uncovered id is kept.
C6_Witness ==
    /\ phase = "CAP_CHECK" /\ args.resume /\ outFile.exists
    /\ Len(batches) < CeilDiv(Len(lines), args.batch_size)
    /\ \E j \in DOMAIN batches :
          /\ \E k \in DOMAIN batches[j].items : batches[j].items[k].id \in processed_ids
          /\ \E k \in DOMAIN batches[j].items : batches[j].items[k].id \notin processed_ids

\* ------------------------------------------------ properties of the output

\* What this run has written to the output.
NewData == SubSeq(outFile.data, openLen + 1, Len(outFile.data))

RecordsFor(i) ==
    {k \in DOMAIN NewData :
        NewData[k].t = "rec" /\ NewData[k].rec.batch_start_index = i}

WholeLines(d) ==
    \A k \in DOMAIN d : IF k % 2 = 1 THEN d[k].t = "rec" ELSE d[k] = NL

IsPrefix(a, b) == Len(a) <= Len(b) /\ SubSeq(b, 1, Len(a)) = a

\* C7: whatever the interleaving and the outcomes, the lines this run writes
\* are whole (a record, then its newline), written lines are never changed,
\* and at DONE there is exactly one line for each batch of the work queue.
C7_OneRecordPerBatch ==
    /\ [](Started => WholeLines(NewData))
    /\ [](phase = "DONE" =>
             /\ Len(NewData) = 2 * Len(batches)
             /\ \A j \in DOMAIN batches :
                   Cardinality(RecordsFor(batches[j].start_index)) = 1)
    /\ [][(Started /\ Started') => IsPrefix(outFile.data, outFile'.data)]_vars

\* C7 witness: two threads have finished two batches, the second batch's
\* record written first, one a failure and one a success.
C7_Witness ==
    /\ phase = "DONE" /\ args.concurrency = 2 /\ Len(batches) = 2
    /\ NewData[1].rec.batch_start_index = batches[2].start_index
    /\ NewData[1].rec.model_parsed = None
    /\ NewData[3].rec.model_parsed # None

\* C8: every record this run writes carries the ids of its batch, in order,
\* and the batch's start index, whether the batch succeeded or not.
C8_RecordNamesItsBatch ==
    Started =>
        \A k \in DOMAIN NewData :
            NewData[k].t = "rec" =>
                \E j \in DOMAIN batches :
                    /\ NewData[k].rec.batch_start_index = batches[j].start_index
                    /\ NewData[k].rec.input_ids = BatchIds(batches[j])

\* C8 witness: the record of a failed batch of two papers.
C8_Witness ==
    /\ Started
    /\ \E k \in DOMAIN NewData :
          /\ NewData[k].t = "rec"
          /\ NewData[k].rec.model_parsed = None
          /\ NewData[k].rec.input_ids = <<1, 2>>

\* ------------------------------------------- properties of the retry loop

Written(i) == futures[i] \in {"finished", "collected"}

\* The attempt did not yield a parsed list.
Failed(a) == a.kind # "body" \/ parse_model_json(a.text[1]) = None

\* Every one of the max_retries attempts of batch i failed.
Exhausted(i) ==
    /\ args.max_retries >= 1
    /\ Len(hist[i]) = args.max_retries
    /\ \A k \in DOMAIN hist[i] : Failed(hist[i][k])

AllExceptions(i) == \A k \in DOMAIN hist[i] : hist[i][k].kind = "exc"

Last(sq) == sq[Len(sq)]

\* C9: a batch whose max_retries attempts all raise yields a record with a
\* null model_parsed and the last attempt's error text as model_raw, and the
\* run goes on: at DONE every batch of the work queue has its record.
C9_AllAttemptsRaise ==
    /\ \A i \in DOMAIN futures :
          (Written(i) /\ Exhausted(i) /\ AllExceptions(i)) =>
              /\ RecordsFor(i) # {}
              /\ \A k \in RecordsFor(i) :
                    /\ NewData[k].rec.model_parsed = None
                    /\ NewData[k].rec.model_raw = Last(hist[i]).text
    /\ phase = "DONE" =>
          \A j \in DOMAIN batches : RecordsFor(batches[j].start_index) # {}

\* C9 witness: a finished run of two batches, one with two attempts that
\* raised different errors, the other parsed.
C9_Witness ==
    /\ phase = "DONE" /\ Len(batches) = 2
    /\ \E i, j \in DOMAIN futures :
          /\ Exhausted(i) /\ AllExceptions(i)
          /\ Len(hist[i]) = 2 /\ hist[i][1].text # hist[i][2].text
          /\ \E k \in RecordsFor(j) : NewData[k].rec.model_parsed # None

\* The error message an attempt leaves in error_msg.
ErrorText(a) == IF a.kind = "body" THEN Some(ParseErrorMsg) ELSE a.text

\* C10 as stated: after max_retries failed attempts of any kinds, model_parsed
\* is null and model_raw is the response text or the error text of the last
\* attempt.
C10_RawOfLastAttempt ==
    \A i \in DOMAIN futures :
        (Written(i) /\ Exhausted(i)) =>
            \A k \in RecordsFor(i) :
                /\ NewData[k].rec.model_parsed = None
                /\ \/ NewData[k].rec.model_raw = Last(hist[i]).text
                   \/ NewData[k].rec.model_raw = ErrorText(Last(hist[i]))

\* The raw text the code keeps: the content of the latest attempt whose call
\* returned, when that is a non-empty string, else the last error message.
KeptRaw(h) ==
    LET returned == {k \in DOMAIN h : h[k].kind \in {"body", "null"}}
        latest == CHOOSE k \in returned : \A m \in returned : m <= k
    IN  IF returned # {} /\ h[latest].kind = "body" /\ h[latest].text[1] # << >>
        THEN h[latest].text
        ELSE ErrorText(Last(h))

\* C10, amended: after max_retries failed attempts model_parsed is null and
\* model_raw is the content returned by the latest attempt whose call
\* returned, if that content is a non-empty string, and otherwise the error
\* text of the last attempt.
C10_RawOfLatestResponse ==
    \A i \in DOMAIN futures :
        (Written(i) /\ Exhausted(i)) =>
            /\ RecordsFor(i) # {}
            /\ \A k \in RecordsFor(i) :
                  /\ NewData[k].rec.model_parsed = None
                  /\ NewData[k].rec.model_raw = KeptRaw(hist[i])

\* C10 witness: an unparsable response, then an exception: the record keeps
\* the response of the first attempt.
C10_Witness ==
    \E i \in DOMAIN futures :
        /\ Written(i) /\ Exhausted(i)
        /\ Len(hist[i]) = 2
        /\ hist[i][1].kind = "body" /\ hist[i][2].kind = "exc"
        /\ \E k \in RecordsFor(i) : NewData[k].rec.model_raw = hist[i][1].text

\* ------------------------------------------------- properties of the aborts

\* The run has ended without reaching DONE.
Aborted == phase \in {"ABORT_CRED", "ABORT_CAP", "CRASHED"}

\* C11 as stated: a run is aborted only by the missing credential or by a
\* plan that exceeds the cap; no input line, whether valid JSON or not, aborts
\* the run in another way.
C11_OnlyTwoAborts ==
    Aborted =>
        \/ phase = "ABORT_CRED" /\ ~ args.api_key
        \/ phase = "ABORT_CAP" /\ ExceedsCap(Len(batches), args.daily_call_cap)

\* C12: a run without an API key aborts at its first step, and such a run
\* never reads the input, builds a batch, passes the limiter or sends a request.
C12_NoKeyNoWork ==
    /\ [](~ args.api_key =>
             /\ phase \in {"START", "ABORT_CRED"}
             /\ lines = << >> /\ batches = << >>
             /\ admitted = << >> /\ requests = << >>)
    /\ [](phase = "ABORT_CRED" => ~ args.api_key)
    /\ [][(phase = "START" /\ ~ args.api_key) => phase' = "ABORT_CRED"]_vars

\* C12 witness: the run has aborted for want of a key, with input waiting
\* and an existing output to resume from.
C12_Witness ==
    /\ phase = "ABORT_CRED"
    /\ Len(inputLines) = MaxLines /\ args.resume /\ outFile.exists
    /\ args.daily_call_cap >= Len(inputLines)

\* --------------------------------------------- properties of the output mode

\* What the output held when this run opened it and kept (nothing without
\* --resume): the steps before the opening leave the file alone and the steps
\* after it only append, which C13_AppendOrTruncate states.
PriorPart == SubSeq(outFile.data, 1, openLen)

\* The lines of a file that end with a newline: all but, possibly, the last.
TerminatedLines(d) ==
    LET Ended(l) == Last(l) = NL
    IN  SelectSeq(SplitLines(d, << >>), Ended)

\* Every record of this run's part of the output is the record of a batch
\* of this run's work queue.
OwnRecords ==
    \A k \in DOMAIN NewData :
        NewData[k].t = "rec" =>
            \E j \in DOMAIN batches :
                NewData[k].rec.batch_start_index = batches[j].start_index

\* C13 as stated: with --resume every line the output held before the run is
\* still there after the run, unchanged and at the same position; without
\* --resume the output holds only this run's records.
C13_PriorLinesKept ==
    phase = "DONE" =>
        IF args.resume
        THEN IsPrefix(SplitLines(PriorPart, << >>), SplitLines(outFile.data, << >>))
        ELSE openLen = 0 /\ WholeLines(outFile.data) /\ OwnRecords

\* C13, amended: the run leaves the output alone until it opens it; opening
\* keeps the content with --resume and empties it without; from then on the
\* run only appends. So with --resume the earlier bytes stay a prefix of the
\* output, and every earlier line that ends with a newline is still there,
\* unchanged and at the same position, the new records after it; without
\* --resume the output holds only this run's records.
C13_AppendOrTruncate ==
    /\ [][(~ Started /\ ~ Started') => outFile' = outFile]_vars
    /\ [][(~ Started /\ Started') =>
             /\ outFile'.data = (IF args.resume THEN outFile.data ELSE << >>)
             /\ openLen' = Len(outFile'.data)]_vars
    /\ [][(Started /\ Started') =>
             /\ IsPrefix(outFile.data, outFile'.data)
             /\ openLen' = openLen]_vars
    /\ [](phase = "DONE" =>
             /\ IsPrefix(TerminatedLines(PriorPart), SplitLines(outFile.data, << >>))
             /\ WholeLines(NewData) /\ OwnRecords
             /\ (~ args.resume => openLen = 0))

\* C13 witness: a resumed run has finished; the output's last earlier line
\* had no newline and this run's first record now continues that line.
C13_Witness ==
    /\ phase = "DONE" /\ args.resume
    /\ openLen > 0 /\ outFile.data[openLen] # NL
    /\ Len(NewData) > 0
    /\ Len(SplitLines(outFile.data, << >>)[Len(SplitLines(PriorPart, << >>))]) > 2

\* ----------------------------------------------- properties of the slicing

\* The input has been read and sliced.
Loaded == phase \notin {"START", "LOADING", "ABORT_CRED"}

\* Input lines start .. start+max-1, clipped to the input; all from start on
\* when no max is given.
ExpectedSlice ==
    LET last == IF args.max = None THEN Len(inputLines)
                ELSE Min(args.start + args.max[1], Len(inputLines))
    IN  SubSeq(inputLines, args.start + 1, last)

\* C14 as stated: for every start >= 0 and every max >= 0 that is given, the
\* lines that survive LOADING are exactly input lines start .. start+max-1,
\* clipped to the input length.
C14_SliceExact == Loaded => lines = ExpectedSlice

\* ---------------------------------------------- properties of the ordering

\* The batches the pool has not handed to a thread yet are the last ones of
\* the work queue: threads take the batches in the queue's order.
TakenInOrder ==
    pending = SubSeq(batches, Len(batches) - Len(pending) + 1, Len(batches))

\* C15: the work queue is in input order (ascending batch_start_index) and
\* the pool starts the batches in that order; the records may be written in
\* another order, but no two records this run writes share a
\* batch_start_index.
C15_SubmittedInOrder ==
    /\ \A j, k \in DOMAIN batches :
          j < k => batches[j].start_index < batches[k].start_index
    /\ phase = "DRAINING" => TakenInOrder
    /\ Started => \A k, m \in DOMAIN NewData :
                     (/\ k # m
                      /\ NewData[k].t = "rec"
                      /\ NewData[m].t = "rec") =>
                         NewData[k].rec.batch_start_index
                             # NewData[m].rec.batch_start_index

\* C15 witness: two batches were started in input order, each by its own
\* thread, and the record of the later batch is the first in the output.
C15_Witness ==
    /\ phase = "DONE" /\ Len(batches) = 2 /\ Len(NewData) = 4
    /\ NewData[1].rec.batch_start_index = batches[2].start_index
    /\ NewData[3].rec.batch_start_index = batches[1].start_index
    /\ batches[1].start_index < batches[2].start_index

\* ------------------------------------- properties of reconstruct_abstract

\* text.split(" ")
RECURSIVE Split(_, _)
Split(text, cur) ==
    IF text = << >> THEN << cur >>
    ELSE IF Head(text) = " " THEN << cur >> \o Split(Tail(text), << >>)
    ELSE Split(Tail(text), Append(cur, Head(text)))

\* The index and the reconstructed abstract of the one input line.
TheIndex == lines[1].inv
TheTokens == Split(batches[1].items[1].abstract, << >>)

Lists(e, p) == \E j \in DOMAIN e.positions : e.positions[j] = p

\* C16 as stated: for every non-empty inverted index (its positions are
\* non-negative), the abstract split on single spaces has max(position)+1
\* tokens and each word is the token at every position it lists.
C16_EachWordAtItsPositions ==
    (BatchesBuilt /\ TheIndex # << >>) =>
        /\ Len(TheTokens) = MaxOf(AllPositions(TheIndex)) + 1
        /\ \A k \in DOMAIN TheIndex : \A p \in AllPositions(TheIndex) :
              Lists(TheIndex[k], p) => TheTokens[p + 1] = TheIndex[k].word

\* C16, amended: for every inverted index that lists a position and whose
\* words hold no space, the abstract split on single spaces has
\* max(position)+1 tokens; the token at a position is the last word, in the
\* index's order, that lists it, and empty if no word does. So each word is
\* at every position it lists when no two words list the same position.
C16_LastWordAtEachPosition ==
    (/\ BatchesBuilt /\ TheIndex # << >>
     /\ \A k \in DOMAIN TheIndex :
           \A j \in DOMAIN TheIndex[k].word : TheIndex[k].word[j] # " ") =>
        /\ Len(TheTokens) = MaxOf(AllPositions(TheIndex)) + 1
        /\ \A p \in 0..MaxOf(AllPositions(TheIndex)) :
              LET ks == {k \in DOMAIN TheIndex : Lists(TheIndex[k], p)}
              IN  TheTokens[p + 1] = IF ks = {} THEN << >>
                                     ELSE TheIndex[MaxOf(ks)].word

\* C16 witness: two words without a space, one position listed by both and
\* one by neither.
C16_Witness ==
    /\ BatchesBuilt /\ Len(TheIndex) = 2
    /\ TheIndex[1] = Entry(<<"a">>, <<0>>) /\ TheIndex[2] = Entry(<<"b">>, <<0, 2>>)
    /\ TheTokens = << <<"b">>, << >>, <<"b">> >>

\* ------------------------------------------ properties of the retry bound

\* The attempts of all the batches together.
RECURSIVE AttemptsOf(_)
AttemptsOf(S) ==
    IF S = {} THEN 0
    ELSE LET i == CHOOSE x \in S : TRUE
         IN  Len(hist[i]) + AttemptsOf(S \ {i})

\* C17: a batch never makes more than max_retries attempts nor one after an
\* attempt that parsed; a written batch has made at least one attempt if
\* max_retries >= 1, and if its last attempt parsed (after k failures, so
\* k+1 attempts) its record carries that attempt's parsed result. Every
\* attempt is one admission of the limiter followed by one client call.
C17_RetryBound ==
    Started =>
        /\ \A i \in DOMAIN hist :
              /\ Len(hist[i]) <= args.max_retries
              /\ \A k \in DOMAIN hist[i] : k < Len(hist[i]) => Failed(hist[i][k])
        /\ \A i \in DOMAIN futures :
              Written(i) =>
                  /\ args.max_retries >= 1 => Len(hist[i]) >= 1
                  /\ (Len(hist[i]) < args.max_retries) => ~ Failed(Last(hist[i]))
                  /\ (hist[i] # << >> /\ ~ Failed(Last(hist[i]))) =>
                        /\ Cardinality(RecordsFor(i)) = 1
                        /\ \A r \in RecordsFor(i) :
                              /\ NewData[r].rec.model_parsed
                                     = parse_model_json(Last(hist[i]).text[1])
                              /\ NewData[r].rec.model_raw = Last(hist[i]).text
        /\ Len(admitted) >= AttemptsOf(DOMAIN hist)
        /\ phase = "DONE" => Len(admitted) = AttemptsOf(DOMAIN hist)

\* C17 witness: with max_retries 2, one batch parsed at its first attempt and
\* made no second one, the other failed once and then parsed.
C17_Witness ==
    /\ phase = "DONE" /\ args.max_retries = 2
    /\ \E i, j \in DOMAIN futures :
          /\ Len(hist[i]) = 1 /\ ~ Failed(hist[i][1])
          /\ Len(hist[j]) = 2 /\ Failed(hist[j][1]) /\ ~ Failed(hist[j][2])
          /\ \E r \in RecordsFor(j) : NewData[r].rec.model_parsed # None

\* ---------------------------------------- properties of the 429 handling

\* Thread w takes a step.
Steps(w) == wk'[w] # wk[w]

\* The attempt of thread w ends in this step: its result is recorded and
\* the thread is back in the retry loop (backing off) or past it.
AttemptEnds(w) ==
    /\ wk'[w].pc \in {"backoff", "write"}
    /\ hist' = [hist EXCEPT ![wk[w].idx] = Append(@, Last(hist'[wk[w].idx]))]

\* C18: an attempt begins with one admission and sends one request; only a
\* rate-limited first request is followed, 5 s later at the earliest, by one
\* more request, and that one ends the attempt whatever its answer (a second
\* 429 as a failure). So an attempt sends at most two requests.
C18_OneRetryOn429 ==
    /\ [][\A w \in Workers :
             /\ (wk[w].pc = "post1" /\ Steps(w)) =>
                   /\ Len(requests') = Len(requests) + 1
                   /\ \/ AttemptEnds(w)
                      \/ /\ wk'[w].pc = "post2"
                         /\ wk'[w].wakeAt = Last(requests') + RateLimitSleep
                         /\ hist' = hist
             /\ (wk[w].pc = "post2" /\ Steps(w)) =>
                   /\ Len(requests') = Len(requests) + 1
                   /\ Last(requests') >= wk[w].wakeAt
                   /\ AttemptEnds(w)
             /\ (wk'[w].pc = "post1" /\ Steps(w)) =>
                   /\ wk[w].pc = "wait_slot"
                   /\ Len(admitted') = Len(admitted) + 1
             /\ (wk'[w].pc = "post2" /\ Steps(w)) => wk[w].pc = "post1"]_vars
    /\ [][requests' # requests =>
             \E w \in Workers : wk[w].pc \in {"post1", "post2"} /\ Steps(w)]_vars
    /\ [](Len(requests) <= 2 * Len(admitted))
    /\ [](\A i \in DOMAIN hist : \A k \in DOMAIN hist[i] :
             hist[i][k].text = Some(ExceptionMsg("http 429")) => Failed(hist[i][k]))

\* C18 witness: the one attempt of a run has sent two requests 5 s apart,
\* both answered 429, and has failed.
C18_Witness ==
    /\ Len(admitted) = 1 /\ Len(requests) = 2
    /\ requests[2] = requests[1] + RateLimitSleep
    /\ \E i \in DOMAIN hist :
          /\ Len(hist[i]) = 1
          /\ hist[i][1].text = Some(ExceptionMsg("http 429"))
    /\ \E w \in Workers : wk[w].pc = "backoff"

\* ------------------------------------------ properties of the resume scan

\* The lines of the existing output, and its lines that are one JSON record.
PriorLines == SplitLines(outFile.data, << >>)
RecordLines == {k \in DOMAIN PriorLines : Parseable(PriorLines[k])}

\* The ids named by the records of the lines K.
IdsOf(K) ==
    UNION {{PriorLines[k][1].rec.input_ids[j] :
                j \in DOMAIN PriorLines[k][1].rec.input_ids} : k \in K}

Scanned == phase \in {"BUILDING_BATCHES", "CAP_CHECK", "ABORT_CAP", "CRASHED"}

\* C19: the scan never ends the run; on resume it collects the ids of every
\* line of the output that is a record, with a parsed result or with none,
\* and passes over the other lines; so a batch whose ids all come from
\* records of failed batches is not in the work queue.
C19_ScanKeepsFailedRecords ==
    /\ [][phase = "RESUME_SCAN" => phase' = "BUILDING_BATCHES"]_vars
    /\ [](Scanned =>
             processed_ids = IF args.resume /\ outFile.exists
                             THEN IdsOf(RecordLines) ELSE {})
    /\ []((phase = "CAP_CHECK" /\ args.resume /\ outFile.exists) =>
             \A j \in DOMAIN batches :
                 \E k \in DOMAIN batches[j].items :
                     batches[j].items[k].id \notin IdsOf(RecordLines))

\* C19 witness: the output holds bytes that are not JSON and the record of
\* a failed batch, nothing else; the batch of that record's id is dropped and
\* another batch is queued.
C19_Witness ==
    /\ phase = "CAP_CHECK" /\ args.resume
    /\ outFile.data = <<Garbage, NL, RecTok(FailedRecord(<<2>>)), NL>>
    /\ args.batch_size = 1 /\ Len(lines) = 2 /\ lines[2].id = 2
    /\ processed_ids = {2}
    /\ Len(batches) = 1 /\ batches[1].items[1].id = 1

\* ------------------------------------------------ properties of termination

\* C20: under fair scheduling, with requests that return and time that
\* advances, a run that submits its batches reaches DONE; a thread leaves
\* wait_for_slot only by being admitted, and at DONE no thread is left in it
\* and every batch of the work queue has its record.
C20_Termination ==
    /\ (phase = "DISPATCHING") ~> (phase = "DONE")
    /\ [][\A w \in 1..MaxWorkers :
             (wk[w].pc = "wait_slot" /\ wk'[w].pc # "wait_slot") =>
                 wk'[w].pc = "post1"]_vars
    /\ [](phase = "DONE" =>
             /\ \A w \in 1..MaxWorkers : wk[w].pc = "idle"
             /\ \A j \in DOMAIN batches :
                   /\ Written(batches[j].start_index)
                   /\ RecordsFor(batches[j].start_index) # {})

\* C20 witness: with one call per minute a second attempt waited for the
\* first one's timestamp to leave the window, and the run is done.
C20_Witness ==
    /\ phase = "DONE" /\ args.calls_per_minute = 1
    /\ Len(admitted) = 2 /\ admitted[2] > admitted[1] + WINDOW
    /\ \A i \in DOMAIN futures : RecordsFor(i) # {}

\* ----------------------------------------- properties of parse_model_json

\* The part of a text from its first "[" to its last "]", if the one is
\* before the other; else no text.
Bracketed(t) ==
    LET opens == {k \in DOMAIN t : t[k] = "["}
        closes == {k \in DOMAIN t : t[k] = "]"}
    IN  IF opens # {} /\ closes # {}
           /\ (CHOOSE a \in opens : \A k \in opens : a <= k)
                < (CHOOSE b \in closes : \A k \in closes : k <= b)
        THEN Some(SubSeq(t, CHOOSE a \in opens : \A k \in opens : a <= k,
                            CHOOSE b \in closes : \A k \in closes : k <= b))
        ELSE None

\* What the claim gives for a response text: the array the trimmed text is,
\* else the array its bracketed part is, else null.
ExpectedParse(t) ==
    IF IsJsonArray(Strip(t)) THEN Some(NoSpaces(Strip(t)))
    ELSE IF Bracketed(Strip(t)) # None /\ IsJsonArray(Bracketed(Strip(t))[1])
         THEN Some(NoSpaces(Bracketed(Strip(t))[1]))
         ELSE None

\* C21: the parsed result of a response is the array the trimmed text is,
\* else the array between its first "[" and its last "]", else null; it is
\* never a value that is not an array.
C21_DirectThenBracketed ==
    \A i \in DOMAIN futures :
        (Written(i) /\ hist[i] # << >>) =>
            \A r \in RecordsFor(i) :
                /\ NewData[r].rec.model_parsed = ExpectedParse(hist[i][1].text[1])
                /\ NewData[r].rec.model_parsed # None =>
                      IsJsonArray(NewData[r].rec.model_parsed[1])

\* C21 witness: a response with prose before the array and whitespace
\* after it was parsed to the array.
C21_Witness ==
    \E i \in DOMAIN futures :
        /\ Written(i)
        /\ hist[i] = <<[kind |-> "body", text |-> Some(<<"x", "[", "1", "]", " ">>)]>>
        /\ \E r \in RecordsFor(i) : NewData[r].rec.model_parsed = Some(ArrayText)

\* ------------------------------------------- properties of fetch_openalex

\* The requests that were answered with a page, in order.
PageGets ==
    LET Ok(g) == g.status = 200 IN SelectSeq(fetch.gets, Ok)

\* The items of pages 1..k of the service, in order.
RECURSIVE ItemsUpTo(_)
ItemsUpTo(k) == IF k = 0 THEN << >> ELSE ItemsUpTo(k - 1) \o fetch.pages[k]

\* C22: a request answered 429 is repeated with the same cursor; without a
\* cap, after any 429s and pages the items yielded are exactly the items of
\* the pages received, which are pages 1, 2, ... in order, each once; and the
\* stream ends only with the page that has no next cursor.
C22_RetrySameCursor ==
    (fetch.pc # "off" /\ fetch.max_results = None) =>
        /\ \A k \in DOMAIN fetch.gets :
              (fetch.gets[k].status = 429 /\ k < Len(fetch.gets)) =>
                  fetch.gets[k + 1].cursor = fetch.gets[k].cursor
        /\ \A k \in DOMAIN fetch.gets :
              (fetch.gets[k].status = 429 /\ k = Len(fetch.gets)) =>
                  fetch.pc = "get" /\ fetch.cursor = fetch.gets[k].cursor
        /\ \A k \in DOMAIN PageGets : PageGets[k].cursor = k
        /\ fetch.yielded = ItemsUpTo(Len(PageGets))
        /\ fetch.pc = "done" => Len(PageGets) = Len(fetch.pages)

\* C22 witness: three pages, the second asked for three times; the stream
\* has ended with every item of the three pages.
C22_Witness ==
    /\ fetch.pc = "done" /\ fetch.max_results = None
    /\ Len(fetch.pages) = 3 /\ Len(fetch.yielded) = 5
    /\ Len(fetch.gets) = 5
    /\ fetch.gets[2] = Get(2, 429) /\ fetch.gets[3] = Get(2, 429)
    /\ fetch.gets[4] = Get(2, 200)

\* C23: when max_results is given, at most max_results items are yielded in
\* total, over any number of pages, and once that many have been yielded no
\* further page is requested.
C23_CapRespected ==
    (fetch.pc # "off" /\ fetch.max_results # None) =>
        /\ Len(fetch.yielded) <= fetch.max_results[1]
        /\ Len(fetch.yielded) >= fetch.max_results[1] => fetch.pc # "get"

\* ----------------------------------------------- properties of a re-run

\* C24: in a re-run with --resume over the log of a run that reached DONE, on
\* the same input with the same arguments, the work queue that is built is
\* empty, no attempt is admitted and no request goes out, and no step changes
\* the output file.
C24_RerunDoesNothing ==
    [][run' = 2 =>
          /\ batches' = << >>
          /\ pending' = << >>
          /\ admitted' = << >>
          /\ requests' = << >>
          /\ outFile' = outFile]_vars

\* C24 witness: the re-run of a run that wrote the records of two batches,
\* one of them failed, has come to its end.
C24_Witness ==
    /\ run = 2
    /\ phase = "DONE"
    /\ Len(inputLines) = 2
    /\ args.batch_size = 1
    /\ \E k \in DOMAIN outFile.data :
          /\ outFile.data[k].t = "rec"
          /\ outFile.data[k].rec.model_parsed = None

\* --------------------------------------------- properties of the pre-flight

\* The phases of a run before the output stream is opened, the two aborts
\* among them.
PreFlight ==
    {"START", "LOADING", "RESUME_SCAN", "BUILDING_BATCHES", "CAP_CHECK",
     "ABORT_CRED", "ABORT_CAP"}

\* C25: no step of a run up to and including an abort for a missing
\* credential or an exceeded cap changes the output file: it is not created,
\* not truncated and not appended to, with --resume or without; and nothing
\* follows an abort.
C25_AbortLeavesOutput ==
    [][/\ phase' \in PreFlight => outFile' = outFile
       /\ phase \in {"ABORT_CRED", "ABORT_CAP"} => FALSE]_vars

\* C25 witness: a run without --resume over an output file that holds a
\* record has aborted at the cap check.
C25_Witness ==
    /\ phase = "ABORT_CAP"
    /\ ~ args.resume
    /\ outFile.exists
    /\ outFile.data # << >>

\* ------------------------------------------ properties of the limiter queue

\* The attempts that have passed wait_for_slot and whose call has not
\* returned yet.
InFlight == {w \in Workers : wk[w].pc \in {"post1", "post2"}}

\* The queue after its k oldest entries were removed.
DropHead(q, k) == SubSeq(q, k + 1, Len(q))

\* C26: the timestamp queue never holds more than calls_per_minute entries
\* and is in non-decreasing order; a step changes it only by removing entries
\* from its head, each more than 60 s old, and then appending at most one
\* entry, the current time, which it does exactly when it admits an attempt;
\* and the number of entries ever appended is the number of attempts made.
C26_QueueInvariant ==
    /\ [](/\ Len(call_timestamps) <= args.calls_per_minute
          /\ \A j, k \in DOMAIN call_timestamps :
                j <= k => call_timestamps[j] <= call_timestamps[k]
          /\ Len(admitted) = AttemptsOf(DOMAIN hist) + Cardinality(InFlight))
    /\ [][\E k \in 0..Len(call_timestamps) :
             /\ \A j \in 1..k : clock - call_timestamps[j] > WINDOW
             /\ \/ /\ call_timestamps' = DropHead(call_timestamps, k)
                   /\ admitted' = admitted
                   /\ InFlight' \subseteq InFlight
                \/ /\ call_timestamps' = Append(DropHead(call_timestamps, k), clock)
                   /\ admitted' = Append(admitted, clock)
                   /\ \E w \in Workers : /\ InFlight' = InFlight \cup {w}
                                         /\ w \notin InFlight
                                         /\ wk[w].pc = "wait_slot"]_vars

\* C26 witness: with one call a minute, the second attempt was admitted
\* after the entry of the first had left the queue's head: two entries were
\* appended, one is held.
C26_Witness ==
    /\ args.calls_per_minute = 1
    /\ Len(admitted) = 2
    /\ call_timestamps = <<admitted[2]>>
    /\ admitted[2] > admitted[1] + WINDOW
    /\ InFlight # {}

====
